---- MODULE Spec2Model ----
(***************************************************************************)
(* Multi-Template-Matching (src/MTM/__init__.py): peak extraction from a   *)
(* correlation map (findMaximas), candidate assembly over a list of        *)
(* templates (findMatches), and the pipeline matchTemplates = findMatches  *)
(* followed by Non-Maxima Suppression (NMS).                               *)
(*                                                                         *)
(* Scores are integers (score levels), the overlap bound is a rational     *)
(* num/den, an image or template is its shape [w, h], and a correlation    *)
(* map is [rows, cols, val] with val[<<r, c>>] the score at (r, c).        *)
(* feature.match_template (the correlation provider) is external: it       *)
(* yields any map of the shape (H - h + 1) x (W - w + 1).                  *)
(* feature.peak_local_max is external too: the local maxima strictly above *)
(* threshold_abs, highest first, at most num_peaks of them.                *)
(* The image is 3 x 2; the templates, search regions and overlap bounds    *)
(* are the small sets defined under "inputs".                              *)
(***************************************************************************)
EXTENDS Integers, Sequences, FiniteSets, Bags, TLC

\* ------------------------------------------------------------------ bounds
MaxTemplates == 2   \* templates per call
MaxScore == 1       \* score levels are 0..MaxScore
MaxPool == 3        \* candidates in a pool handed directly to NMS
MaxObjects == 2     \* finite nObjects range up to this

Scores == 0..MaxScore
Thresholds == -1..MaxScore

Max(a, b) == IF a >= b THEN a ELSE b
Min(a, b) == IF a <= b THEN a ELSE b

\* ------------------------------------------------------- argument values
\* nObjects: float("inf"), a Python int, or a Python float of integral value.
Inf == [kind |-> "inf", val |-> 0]
PyInt(n) == [kind |-> "int", val |-> n]
PyFloat(n) == [kind |-> "float", val |-> n]
NObjectsAll == {Inf} \cup {PyInt(n) : n \in -1..MaxObjects} \cup {PyFloat(n) : n \in 0..1}
NObjectsValid == {Inf} \cup {PyInt(n) : n \in 1..MaxObjects}

\* nObjects != float("inf")
NotInf(n) == n.kind # "inf"
\* type(nObjects) != int
NotIntType(n) == n.kind # "int"
\* nObjects < 1
LessThanOne(n) == n.kind # "inf" /\ n.val < 1
\* nObjects == 1
EqualsOne(n) == n.kind # "inf" /\ n.val = 1
\* len(xs) == nObjects
LenEquals(k, n) == n.kind # "inf" /\ k = n.val

\* maxOverlap as a rational num/den.
Ratio(n, d) == [num |-> n, den |-> d]
OverlapsAll == {Ratio(-1, 4), Ratio(0, 4), Ratio(1, 4), Ratio(2, 4), Ratio(4, 4), Ratio(5, 4)}
OverlapsValid == {Ratio(0, 4), Ratio(1, 4), Ratio(2, 4), Ratio(4, 4)}
DefaultOverlap == Ratio(1, 4)

\* listLabels: None (given = FALSE) or a list of strings.
LabelNames == <<"cat", "dog", "bird", "fish">>
NoLabels == [given |-> FALSE, list |-> <<>>]
Labels(n) == [given |-> TRUE, list |-> SubSeq(LabelNames, 1, n)]

\* searchBox: None (<<>>) or one (X, Y, Width, Height).
Box(x, y, w, h) == [x |-> x, y |-> y, w |-> w, h |-> h]
Shape(w, h) == [w |-> w, h |-> h]

\* ---------------------------------------------------------- BoundingBox
Hit(bbox, score, index, label) ==
  [bbox |-> bbox, score |-> score, index |-> index, label |-> label]

\* Intersection area of two axis-aligned rectangles.
Intersection(a, b) ==
  LET iw == Min(a.x + a.w, b.x + b.w) - Max(a.x, b.x)
      ih == Min(a.y + a.h, b.y + b.h) - Max(a.y, b.y)
  IN  IF iw > 0 /\ ih > 0 THEN iw * ih ELSE 0

Union(a, b) == a.w * a.h + b.w * b.h - Intersection(a, b)

\* IoU(a, b) > m, for a rational m, without division.
IoUExceeds(a, b, m) == Intersection(a, b) * m.den > m.num * Union(a, b)

\* --------------------------------------------------------- correlation map
Cells(rows, cols) == (0..rows - 1) \X (0..cols - 1)
CorrMaps(rows, cols) ==
  {[rows |-> rows, cols |-> cols, val |-> v] : v \in [Cells(rows, cols) -> Scores]}
EmptyMap == [rows |-> 0, cols |-> 0, val |-> <<>>]

\* feature.match_template(image, template): shape of the result.
CorrRows(image, template) == image.h - template.h + 1
CorrCols(image, template) == image.w - template.w + 1
\* "Image must be larger than template."
TemplateTooLarge(image, template) == image.h < template.h \/ image.w < template.w

\* Insertion that puts an element before those of equal score.
RECURSIVE InsertBeforeEqual(_, _)
InsertBeforeEqual(s, e) ==
  IF s = <<>> THEN <<e>>
  ELSE IF Head(s).score > e.score THEN <<Head(s)>> \o InsertBeforeEqual(Tail(s), e)
  ELSE <<e>> \o s

\* Sort records by descending .score, stable (list.sort(reverse=True, key=score)
\* and the descending-intensity order of peak_local_max).
RECURSIVE InsertByScore(_, _)
InsertByScore(s, e) ==
  IF s = <<>> THEN <<e>>
  ELSE IF Head(s).score >= e.score THEN <<Head(s)>> \o InsertByScore(Tail(s), e)
  ELSE <<e>> \o s

RECURSIVE SortByScore(_)
SortByScore(s) ==
  IF s = <<>> THEN <<>>
  ELSE InsertByScore(SortByScore(SubSeq(s, 1, Len(s) - 1)), s[Len(s)])

\* Cells of the map in row-major order, as [row, col, score].
RowMajor(m) ==
  [i \in 1..(m.rows * m.cols) |->
     LET r == (i - 1) \div m.cols
         c == (i - 1) % m.cols
     IN  [row |-> r, col |-> c, score |-> m.val[<<r, c>>]]]

\* A cell no neighbour (3x3 window, min_distance = 1) exceeds.
IsLocalMax(m, r, c) ==
  \A dr \in -1..1, dc \in -1..1 :
     (r + dr \in 0..m.rows - 1 /\ c + dc \in 0..m.cols - 1)
        => m.val[<<r + dr, c + dc>>] <= m.val[<<r, c>>]

IsConstant(m) == \A p \in Cells(m.rows, m.cols) : m.val[p] = m.val[<<0, 0>>]

Take(s, n) == IF n.kind = "inf" THEN s ELSE SubSeq(s, 1, Min(Len(s), n.val))

\* feature.peak_local_max(corrMap, threshold_abs, exclude_border=False, num_peaks):
\* the local maxima above the threshold, highest first, at most num_peaks of
\* them; a constant map has none.
PeakLocalMax(m, threshold_abs, num_peaks) ==
  LET peaks == SelectSeq(RowMajor(m),
                 LAMBDA p : p.score > threshold_abs /\ IsLocalMax(m, p.row, p.col))
      found == IF IsConstant(m) THEN <<>> ELSE SortByScore(peaks)
      kept == Take(found, num_peaks)
  IN  [i \in 1..Len(kept) |-> <<kept[i].row, kept[i].col>>]

\* findMaximas with a strict comparison on the single-cell map.
FindMaximasStrict(corrMap, score_threshold, nObjects) ==
  IF corrMap.rows = 1 /\ corrMap.cols = 1
  THEN [listPeaks |-> IF corrMap.val[<<0, 0>>] > score_threshold
                      THEN << <<0, 0>> >> ELSE <<>>,
        call |-> <<>>]
  ELSE LET nPeaks == IF EqualsOne(nObjects) THEN PyInt(1) ELSE Inf
       IN  [listPeaks |-> PeakLocalMax(corrMap, score_threshold, nPeaks),
            call |-> <<nPeaks>>]

\* findMaximas limiting the peak search to nObjects peaks.
FindMaximasLimited(corrMap, score_threshold, nObjects) ==
  IF corrMap.rows = 1 /\ corrMap.cols = 1
  THEN [listPeaks |-> IF corrMap.val[<<0, 0>>] >= score_threshold
                      THEN << <<0, 0>> >> ELSE <<>>,
        call |-> <<>>]
  ELSE LET nPeaks == IF NotInf(nObjects) /\ nObjects.val >= 1 THEN PyInt(nObjects.val) ELSE Inf
       IN  [listPeaks |-> PeakLocalMax(corrMap, score_threshold, nPeaks),
            call |-> <<nPeaks>>]

\* findMaximas: the peaks, and the num_peaks of the peak_local_max call it made
\* (call = <<>> when it made none).
FindMaximas(corrMap, score_threshold, nObjects) ==
  IF corrMap.rows = 1 /\ corrMap.cols = 1
  THEN [listPeaks |-> IF corrMap.val[<<0, 0>>] >= score_threshold
                      THEN << <<0, 0>> >> ELSE <<>>,
        call |-> <<>>]
  ELSE LET nPeaks == IF EqualsOne(nObjects) THEN PyInt(1) ELSE Inf
       IN  [listPeaks |-> PeakLocalMax(corrMap, score_threshold, nPeaks),
            call |-> <<nPeaks>>]

\* The hit with the peak's row taken for x and its column for y.
MakeHitSwapped(peak, corrMap, xOff, yOff, template, idx, label) ==
  Hit(Box(peak[1] + xOff, peak[2] + yOff, template.w, template.h),
      corrMap.val[<<peak[1], peak[2]>>], idx, label)

\* bbox and hit built for one peak (findMatches, the inner loop).
MakeHit(peak, corrMap, xOff, yOff, template, idx, label) ==
  Hit(Box(peak[2] + xOff, peak[1] + yOff, template.w, template.h),
      corrMap.val[<<peak[1], peak[2]>>], idx, label)

\* The pool started anew for each template.
RestartPool(pool, hits) == hits

\* listHit = [] before the loop (line 93), listHit.append(hit) in it (line 109).
AppendHits(pool, hits) == pool \o hits

\* label = listLabels[index] if listLabels else ""
LabelOf(listLabels, idx) ==
  IF listLabels.given /\ listLabels.list # <<>> THEN listLabels.list[idx + 1] ELSE ""

\* numpy slice image[off : off + len] of an axis of n pixels (off, len >= 0).
SliceLen(n, off, len) == Max(0, Min(n, off + len) - Min(n, off))

\* ------------------------------------------------------------------ inputs
ImageShape == Shape(3, 2)
\* Templates whose correlation map has one or two cells, and templates with
\* larger maps (searched one at a time).
SmallTemplates == {Shape(3, 2), Shape(2, 2)}
LargeMapTemplates == {Shape(2, 1), Shape(1, 2)}
SeqsUpTo(S, n) == UNION {[1..k -> S] : k \in 0..n}
TemplateLists == SeqsUpTo(SmallTemplates, MaxTemplates) \cup {<<t>> : t \in LargeMapTemplates}
SearchBoxes == {<<>>, <<Box(1, 0, 2, 2)>>, <<Box(0, 1, 3, 1)>>}
LabelLists == {NoLabels} \cup {Labels(n) : n \in 0..MaxTemplates + 1}
\* Correlation maps handed directly to findMaximas.
DirectMaps == CorrMaps(1, 1) \cup CorrMaps(1, 2) \cup CorrMaps(1, 3) \cup CorrMaps(2, 2)
\* Rectangles of the pools handed directly to NMS: IoU(A, B) = IoU(B, C) = 1/3
\* and IoU(A, C) = 1/7.
PoolBoxes == {Box(0, 0, 2, 2), Box(1, 0, 2, 2), Box(1, 1, 2, 2)}
PoolHits == {Hit(b, s, 0, "") : b \in PoolBoxes, s \in Scores}

NoArgs ==
  [entry |-> "", nObjects |-> Inf, maxOverlap |-> DefaultOverlap,
   listTemplates |-> <<>>, listLabels |-> NoLabels, score_threshold |-> 0,
   searchBox |-> <<>>]

PipelineArgs ==
  {[entry |-> e, nObjects |-> n, maxOverlap |-> m, listTemplates |-> ts,
    listLabels |-> ls, score_threshold |-> th, searchBox |-> sb] :
      e \in {"matchTemplates"}, n \in NObjectsAll, m \in OverlapsAll,
      ts \in TemplateLists, ls \in LabelLists, th \in Thresholds, sb \in SearchBoxes}
  \cup
  {[entry |-> e, nObjects |-> n, maxOverlap |-> m, listTemplates |-> ts,
    listLabels |-> ls, score_threshold |-> th, searchBox |-> sb] :
      e \in {"findMatches"}, n \in NObjectsAll, m \in {DefaultOverlap},
      ts \in TemplateLists, ls \in LabelLists, th \in Thresholds, sb \in SearchBoxes}

MaximasArgs ==
  {[NoArgs EXCEPT !.entry = "findMaximas", !.nObjects = n, !.score_threshold = th] :
      n \in NObjectsAll, th \in Thresholds}

NMSArgs ==
  {[NoArgs EXCEPT !.entry = "NMS", !.nObjects = n, !.maxOverlap = m] :
      n \in NObjectsValid, m \in OverlapsValid}

\* NMS called without maxOverlap, which then takes its default of 0.5.
NMSCallArgsDefault(a) == [maxOverlap |-> Ratio(2, 4), nObjects |-> a.nObjects]

\* matchTemplates, line 151: the arguments NMS is called with.
NMSCallArgs(a) == [maxOverlap |-> a.maxOverlap, nObjects |-> a.nObjects]

\* ------------------------------------------------------------------- state
VARIABLES
  pc,          \* control point of the call
  args,        \* the arguments of the call
  image,       \* findMatches: shape of `image` (touched to the search region)
  xOffset,     \* findMatches
  yOffset,     \* findMatches
  index,       \* findMatches: templates searched so far (the loop's 0-based index)
  corrMap,     \* correlation map of the last template searched
  peakCall,    \* num_peaks of the peak_local_max call of the last findMaximas, if any
  listPeaks,   \* peaks of the last findMaximas
  listHit,     \* candidate pool
  nmsArgs,     \* NMS: maxOverlap and nObjects it was called with
  remaining,   \* NMS: candidates neither kept nor suppressed, best first
  kept,        \* NMS: kept candidates, in the order they were selected
  result,      \* the value returned
  error,       \* the exception raised ("" when none)
  corrCalls,   \* invocations of feature.match_template
  touched,     \* whether `image` was sliced or handed to match_template
  previous     \* pool and result of the NMS call whose output is suppressed again

vars == <<pc, args, image, xOffset, yOffset, index, corrMap, peakCall, listPeaks,
          listHit, nmsArgs, remaining, kept, result, error, corrCalls, touched, previous>>

locals == <<image, xOffset, yOffset, index, corrMap, peakCall, listPeaks>>
nmsVars == <<nmsArgs, remaining, kept>>

InitWith(a, hits) ==
  /\ args = a
  /\ pc = a.entry
  /\ image = ImageShape
  /\ xOffset = 0
  /\ yOffset = 0
  /\ index = 0
  /\ corrMap = EmptyMap
  /\ peakCall = <<>>
  /\ listPeaks = <<>>
  /\ listHit = hits
  /\ nmsArgs = IF a.entry = "NMS" THEN [maxOverlap |-> a.maxOverlap, nObjects |-> a.nObjects]
               ELSE [maxOverlap |-> DefaultOverlap, nObjects |-> Inf]
  /\ remaining = <<>>
  /\ kept = <<>>
  /\ result = <<>>
  /\ error = ""
  /\ corrCalls = 0
  /\ touched = FALSE
  /\ previous = <<>>

\* A call of matchTemplates, findMatches or findMaximas.
Init == \E a \in PipelineArgs \cup MaximasArgs : InitWith(a, <<>>)

\* A call of NMS on a pool.
InitNMS == \E a \in NMSArgs, hits \in SeqsUpTo(PoolHits, MaxPool) : InitWith(a, hits)

Raise(e) ==
  /\ pc' = "raised"
  /\ error' = e

\* matchTemplates without its check of maxOverlap.
MT_NoOverlapCheck ==
  /\ pc = "matchTemplates"
  /\ pc' = "findMatches"
  /\ UNCHANGED <<args, locals, listHit, nmsVars, result, error, corrCalls, touched, previous>>

\* matchTemplates, lines 147-148.
MT_CheckOverlap ==
  /\ pc = "matchTemplates"
  /\ IF args.maxOverlap.num < 0 \/ args.maxOverlap.num > args.maxOverlap.den
     THEN Raise("ValueError: maxOverlap")
     ELSE pc' = "findMatches" /\ error' = error
  /\ UNCHANGED <<args, locals, listHit, nmsVars, result, corrCalls, touched, previous>>

\* findMatches checking the labels before nObjects.
FM_ValidateLabelsFirst ==
  /\ pc = "findMatches"
  /\ IF args.listLabels.given /\ Len(args.listTemplates) # Len(args.listLabels.list)
     THEN Raise("ValueError: labels")
     ELSE IF NotInf(args.nObjects) /\ NotIntType(args.nObjects)
     THEN Raise("TypeError: nObjects")
     ELSE IF LessThanOne(args.nObjects)
     THEN Raise("ValueError: nObjects")
     ELSE pc' = "crop" /\ error' = error
  /\ UNCHANGED <<args, locals, listHit, nmsVars, result, corrCalls, touched, previous>>

\* findMatches, lines 75-83.
FM_Validate ==
  /\ pc = "findMatches"
  /\ IF NotInf(args.nObjects) /\ NotIntType(args.nObjects)
     THEN Raise("TypeError: nObjects")
     ELSE IF LessThanOne(args.nObjects)
     THEN Raise("ValueError: nObjects")
     ELSE IF args.listLabels.given /\ Len(args.listTemplates) # Len(args.listLabels.list)
     THEN Raise("ValueError: labels")
     ELSE pc' = "crop" /\ error' = error
  /\ UNCHANGED <<args, locals, listHit, nmsVars, result, corrCalls, touched, previous>>

\* findMatches, lines 85-93.
FM_Crop ==
  /\ pc = "crop"
  /\ IF args.searchBox # <<>>
     THEN LET b == args.searchBox[1]
          IN  /\ xOffset' = b.x
              /\ yOffset' = b.y
              /\ image' = Shape(SliceLen(image.w, b.x, b.w), SliceLen(image.h, b.y, b.h))
              /\ touched' = TRUE
     ELSE /\ xOffset' = 0
          /\ yOffset' = 0
          /\ UNCHANGED <<image, touched>>
  /\ listHit' = <<>>
  /\ index' = 0
  /\ pc' = "loop"
  /\ UNCHANGED <<args, corrMap, peakCall, listPeaks, nmsVars, result, error, corrCalls, previous>>

\* findMatches, lines 94-109: one iteration of the loop over the templates.
FM_Template ==
  /\ pc = "loop"
  /\ index < Len(args.listTemplates)
  /\ LET template == args.listTemplates[index + 1]
     IN  /\ corrCalls' = corrCalls + 1
         /\ touched' = TRUE
         /\ IF TemplateTooLarge(image, template)
            THEN /\ Raise("ValueError: template")
                 /\ UNCHANGED <<index, corrMap, peakCall, listPeaks, listHit>>
            ELSE \E m \in CorrMaps(CorrRows(image, template), CorrCols(image, template)) :
                   LET found == FindMaximas(m, args.score_threshold, args.nObjects)
                       label == LabelOf(args.listLabels, index)
                       hits == [i \in 1..Len(found.listPeaks) |->
                                  MakeHit(found.listPeaks[i], m, xOffset, yOffset,
                                          template, index, label)]
                   IN  /\ corrMap' = m
                       /\ peakCall' = found.call
                       /\ listPeaks' = found.listPeaks
                       /\ listHit' = AppendHits(listHit, hits)
                       /\ index' = index + 1
                       /\ UNCHANGED <<pc, error>>
  /\ UNCHANGED <<args, image, xOffset, yOffset, nmsVars, result, previous>>

\* findMatches, line 111, and for matchTemplates line 150.
FM_Return ==
  /\ pc = "loop"
  /\ index = Len(args.listTemplates)
  /\ IF args.entry = "findMatches"
     THEN pc' = "done" /\ result' = listHit
     ELSE pc' = "callNMS" /\ result' = result
  /\ corrMap' = EmptyMap
  /\ peakCall' = <<>>
  /\ listPeaks' = <<>>
  /\ UNCHANGED <<args, image, xOffset, yOffset, index, listHit, nmsVars, error,
                 corrCalls, touched, previous>>

\* A direct call of findMaximas on a correlation map.
FMX_Call ==
  /\ pc = "findMaximas"
  /\ \E m \in DirectMaps :
       LET found == FindMaximas(m, args.score_threshold, args.nObjects)
       IN  /\ corrMap' = m
           /\ peakCall' = found.call
           /\ listPeaks' = found.listPeaks
           /\ result' = found.listPeaks
  /\ pc' = "done"
  /\ UNCHANGED <<args, image, xOffset, yOffset, index, listHit, nmsVars, error,
                 corrCalls, touched, previous>>

\* matchTemplates, line 151: bestHits = NMS(listHit, maxOverlap, nObjects).
MT_CallNMS ==
  /\ pc = "callNMS"
  /\ nmsArgs' = NMSCallArgs(args)
  /\ pc' = "NMS"
  /\ UNCHANGED <<args, locals, listHit, remaining, kept, result, error, corrCalls,
                 touched, previous>>

\* NMS, step 1: the pool sorted by descending score, ties in insertion order.
NMS_Sort ==
  /\ pc = "NMS"
  /\ remaining' = SortByScore(listHit)
  /\ kept' = <<>>
  /\ pc' = "suppress"
  /\ UNCHANGED <<args, locals, listHit, nmsArgs, result, error, corrCalls, touched, previous>>

\* Overlap measured against the sum of the two areas instead of their union.
SuppressesBySum(best, other, maxOverlap) ==
  Intersection(other.bbox, best.bbox) * maxOverlap.den
     > maxOverlap.num * (other.bbox.w * other.bbox.h + best.bbox.w * best.bbox.h)

\* Suppression only among the candidates of one template.
SuppressesSameTemplate(best, other, maxOverlap) ==
  other.index = best.index /\ IoUExceeds(other.bbox, best.bbox, maxOverlap)

\* Whether a kept candidate suppresses another one.
Suppresses(best, other, maxOverlap) == IoUExceeds(other.bbox, best.bbox, maxOverlap)

\* The loop running until the pool is exhausted, whatever the count.
NMSFinishedNoCap(keptHits, candidates, nObjects) == candidates = <<>>

\* The kept set has reached the requested count, or no candidate is left.
NMSFinished(keptHits, candidates, nObjects) ==
  candidates = <<>> \/ LenEquals(Len(keptHits), nObjects)

\* NMS, step 2: keep the best remaining candidate, discard those it suppresses.
NMS_Step ==
  /\ pc = "suppress"
  /\ ~NMSFinished(kept, remaining, nmsArgs.nObjects)
  /\ LET best == Head(remaining)
     IN  /\ kept' = Append(kept, best)
         /\ remaining' = SelectSeq(Tail(remaining),
                            LAMBDA h : ~Suppresses(best, h, nmsArgs.maxOverlap))
  /\ UNCHANGED <<pc, args, locals, listHit, nmsArgs, result, error, corrCalls, touched, previous>>

\* NMS, step 3, and matchTemplates line 153: the kept set is returned.
NMS_Return ==
  /\ pc = "suppress"
  /\ NMSFinished(kept, remaining, nmsArgs.nObjects)
  /\ result' = kept
  /\ pc' = "done"
  /\ UNCHANGED <<args, locals, listHit, nmsArgs, remaining, kept, error, corrCalls,
                 touched, previous>>

\* NMS called again on its own output, with the same maxOverlap and nObjects.
NMS_Again ==
  /\ pc = "done"
  /\ args.entry = "NMS"
  /\ previous = <<>>
  /\ previous' = <<[pool |-> listHit, result |-> result]>>
  /\ listHit' = result
  /\ result' = <<>>
  /\ pc' = "NMS"
  /\ UNCHANGED <<args, locals, nmsArgs, remaining, kept, error, corrCalls, touched>>

Next ==
  \/ MT_CheckOverlap
  \/ FM_Validate
  \/ FM_Crop
  \/ FM_Template
  \/ FM_Return
  \/ MT_CallNMS
  \/ NMS_Sort
  \/ NMS_Step
  \/ NMS_Return
  \/ FMX_Call

NextNMS ==
  \/ NMS_Sort
  \/ NMS_Step
  \/ NMS_Return
  \/ NMS_Again

\* Calls of matchTemplates, findMatches and findMaximas.
Spec == Init /\ [][Next]_vars

\* Calls of NMS on arbitrary pools.
SpecNMS == InitNMS /\ [][NextNMS]_vars

\* ------------------------------------------------------------------ claims
Range(s) == {s[i] : i \in DOMAIN s}
BagOf(s) == [e \in Range(s) |-> Cardinality({i \in DOMAIN s : s[i] = e})]

\* No two distinct entries of s overlap by more than m.
PairwiseWithin(s, m) ==
  \A i \in DOMAIN s, j \in DOMAIN s :
     i # j => Intersection(s[i].bbox, s[j].bbox) * m.den <= m.num * Union(s[i].bbox, s[j].bbox)

\* C1: in a call of matchTemplates (or of NMS), any two distinct detections of
\* the kept set, after every step of the greedy loop, and of the returned
\* result have IoU <= the maxOverlap the caller gave.
C1_OverlapBound ==
  args.entry \in {"matchTemplates", "NMS"}
     => /\ PairwiseWithin(kept, args.maxOverlap)
        /\ PairwiseWithin(result, args.maxOverlap)

\* C1 witness: matchTemplates returned two detections that overlap, within a
\* bound below 1.
C1_Witness ==
  /\ args.entry = "matchTemplates"
  /\ pc = "done"
  /\ Len(result) >= 2
  /\ args.maxOverlap.num < args.maxOverlap.den
  /\ Intersection(result[1].bbox, result[2].bbox) > 0

\* Shape of the region searched: the search box clipped to the image, or the image.
RegionShape(a) ==
  IF a.searchBox = <<>> THEN ImageShape
  ELSE Shape(SliceLen(ImageShape.w, a.searchBox[1].x, a.searchBox[1].w),
             SliceLen(ImageShape.h, a.searchBox[1].y, a.searchBox[1].h))

\* C2, in the case it names of 1x1 correlation maps (every template has the
\* size of the region searched): with nObjects = 1, matchTemplates returns
\* exactly one detection whenever at least one template is searched, the
\* best-scoring candidate, whatever the score_threshold.
C2_SingleBest ==
  (/\ args.entry = "matchTemplates"
   /\ pc = "done"
   /\ EqualsOne(args.nObjects)
   /\ Len(args.listTemplates) >= 1
   /\ \A i \in DOMAIN args.listTemplates : args.listTemplates[i] = RegionShape(args))
     => /\ Len(result) = 1
        /\ \A h \in Range(listHit) : result[1].score >= h.score

\* C3: the result of NMS holds only entries of the pool, each at most as often
\* as the pool does; at most nObjects of them when nObjects is finite; and, when
\* it is unbounded, every candidate of the pool is kept or suppressed by a kept one.
C3_SubsetAndCount ==
  (args.entry = "NMS" /\ pc = "done")
     => /\ BagOf(result) \sqsubseteq BagOf(listHit)
        /\ NotInf(args.nObjects) => Len(result) <= args.nObjects.val
        /\ ~NotInf(args.nObjects) =>
              \A h \in Range(listHit) :
                 \/ h \in Range(result)
                 \/ \E k \in Range(result) : IoUExceeds(h.bbox, k.bbox, args.maxOverlap)

\* C3 witness: the count stopped the loop: a candidate that no kept detection
\* suppresses was left out.
C3_Witness ==
  /\ args.entry = "NMS"
  /\ pc = "done"
  /\ previous = <<>>
  /\ NotInf(args.nObjects)
  /\ Len(result) = args.nObjects.val
  /\ \E h \in Range(listHit) :
        /\ h \notin Range(result)
        /\ \A k \in Range(result) : ~IoUExceeds(h.bbox, k.bbox, args.maxOverlap)

\* Same rectangle.
SameBox(a, b) == a.bbox = b.bbox

\* C4 (state part): in the result of matchTemplates, a candidate is absent when
\* a higher-scoring candidate of another template that overlaps it by more than
\* maxOverlap is kept; and two templates of equal size matching the same region
\* with different scores (unbounded nObjects) yield exactly the higher-scoring one.
C4_Suppressed ==
  (args.entry = "matchTemplates" /\ pc = "done")
     => /\ \A p \in Range(listHit), q \in Range(listHit) :
              (/\ p.index # q.index
               /\ q.score < p.score
               /\ IoUExceeds(p.bbox, q.bbox, args.maxOverlap)
               /\ p \in Range(result))
                 => q \notin Range(result)
        /\ (/\ Len(listHit) = 2
            /\ listHit[1].index = 0
            /\ listHit[2].index = 1
            /\ SameBox(listHit[1], listHit[2])
            /\ listHit[1].score > listHit[2].score
            /\ args.maxOverlap = Ratio(1, 4)
            /\ ~NotInf(args.nObjects))
              => result = <<listHit[1]>>

\* C4 (step part): the candidates of a template are added to those of the
\* templates before it, so that one pool holds all of them.
C4_OnePool ==
  (pc = "loop" /\ pc' = "loop" /\ index' = index + 1)
     => /\ Len(listHit') >= Len(listHit)
        /\ SubSeq(listHit', 1, Len(listHit)) = listHit

\* C4: suppression runs once over the combined pool of all templates and does
\* not look at the template a candidate comes from.
C4_CrossTemplate == [](C4_Suppressed) /\ [][C4_OnePool]_vars

\* C4 witness: the scenario of two templates on the same region, and one
\* detection returned.
C4_Witness ==
  /\ args.entry = "matchTemplates"
  /\ pc = "done"
  /\ Len(listHit) = 2
  /\ listHit[1].index = 0
  /\ listHit[2].index = 1
  /\ SameBox(listHit[1], listHit[2])
  /\ listHit[1].score > listHit[2].score
  /\ args.maxOverlap = Ratio(1, 4)
  /\ ~NotInf(args.nObjects)
  /\ result = <<listHit[1]>>

\* What makes each argument invalid, stated on the arguments alone.
BadType(a) == a.nObjects.kind = "float"
BadCount(a) == a.nObjects.kind # "inf" /\ a.nObjects.val < 1
BadLabels(a) == a.listLabels.given /\ Len(a.listLabels.list) # Len(a.listTemplates)
BadOverlap(a) == a.maxOverlap.num < 0 \/ a.maxOverlap.num > a.maxOverlap.den
InvalidArgs(a) ==
  \/ BadType(a)
  \/ BadCount(a)
  \/ BadLabels(a)
  \/ (a.entry = "matchTemplates" /\ BadOverlap(a))

ArgumentErrors ==
  {"TypeError: nObjects", "ValueError: nObjects", "ValueError: labels", "ValueError: maxOverlap"}

\* C5 as stated: the error of matchTemplates is that of the first failing check
\* in the order nObjects type, nObjects >= 1, labels, maxOverlap.
C5_OrderAsStated ==
  (args.entry = "matchTemplates" /\ pc = "raised" /\ error \in ArgumentErrors)
     => error = IF BadType(args) THEN "TypeError: nObjects"
                ELSE IF BadCount(args) THEN "ValueError: nObjects"
                ELSE IF BadLabels(args) THEN "ValueError: labels"
                ELSE "ValueError: maxOverlap"

\* C5 amended: the error of matchTemplates is that of the first failing check
\* in the order maxOverlap, nObjects type, nObjects >= 1, labels.
C5_OrderOfCode ==
  (args.entry = "matchTemplates" /\ pc = "raised" /\ error \in ArgumentErrors)
     => error = IF BadOverlap(args) THEN "ValueError: maxOverlap"
                ELSE IF BadType(args) THEN "TypeError: nObjects"
                ELSE IF BadCount(args) THEN "ValueError: nObjects"
                ELSE "ValueError: labels"

\* C5 witness: every argument is invalid at once and the maxOverlap error is raised.
C5_Witness ==
  /\ args.entry = "matchTemplates"
  /\ pc = "raised"
  /\ BadType(args) /\ BadCount(args) /\ BadLabels(args) /\ BadOverlap(args)
  /\ error = "ValueError: maxOverlap"

\* C6: in a call of matchTemplates or findMatches with an invalid argument,
\* match_template is never invoked, the image is never sliced or read, and
\* nothing is returned.
C6_FailFast ==
  (args.entry \in {"matchTemplates", "findMatches"} /\ InvalidArgs(args))
     => /\ corrCalls = 0
        /\ ~touched
        /\ result = <<>>
        /\ pc \in {"matchTemplates", "findMatches", "raised"}

\* C6 witness: a call with templates to search and a search region failed on
\* an invalid argument.
C6_Witness ==
  /\ args.entry \in {"matchTemplates", "findMatches"}
  /\ InvalidArgs(args)
  /\ pc = "raised"
  /\ error \in ArgumentErrors
  /\ Len(args.listTemplates) >= 1
  /\ args.searchBox # <<>>

\* C7: NMS run on its own output, with the same maxOverlap and nObjects,
\* returns the same detections in the same order.
C7_Idempotent ==
  (args.entry = "NMS" /\ pc = "done" /\ previous # <<>>)
     => result = previous[1].result

\* C7 witness: the first run suppressed a candidate and kept two of equal
\* score, and the second run is done.
C7_Witness ==
  /\ args.entry = "NMS"
  /\ pc = "done"
  /\ previous # <<>>
  /\ Len(previous[1].pool) > Len(previous[1].result)
  /\ Len(result) >= 2
  /\ result[1].score = result[2].score
  /\ result[1] # result[2]

C9_PeakCount ==
  (corrMap.rows * corrMap.cols > 1)
     => peakCall = <<IF args.nObjects.kind # "inf" /\ args.nObjects.val = 1
                     THEN PyInt(1) ELSE Inf>>

\* C9 witness: with nObjects = 2, findMatches holds three candidates of one
\* template.
C9_Witness ==
  /\ args.entry \in {"matchTemplates", "findMatches"}
  /\ pc = "loop"
  /\ index = 1
  /\ args.nObjects = PyInt(2)
  /\ peakCall = <<Inf>>
  /\ Len(listHit) = 3

\* Offset of the search region: its (x, y), or (0, 0) without one.
OffsetX(a) == IF a.searchBox = <<>> THEN 0 ELSE a.searchBox[1].x
OffsetY(a) == IF a.searchBox = <<>> THEN 0 ELSE a.searchBox[1].y

\* C10: the detections built for the peaks (row, col) of a template have
\* position (col + xOffset, row + yOffset) and the template's (width, height).
C10_Position ==
  (pc = "loop" /\ index >= 1)
     => LET k == Len(listPeaks)
            n == Len(listHit)
            t == args.listTemplates[index]
        IN  /\ n >= k
            /\ \A i \in 1..k :
                  listHit[n - k + i].bbox =
                     Box(listPeaks[i][2] + OffsetX(args), listPeaks[i][1] + OffsetY(args),
                         t.w, t.h)

\* C10 witness: with the search region at (1, 0), the peak at row 1, column 0
\* gave a detection at (1, 1).
C10_Witness ==
  /\ pc = "loop"
  /\ index = 1
  /\ args.searchBox = <<Box(1, 0, 2, 2)>>
  /\ listPeaks = << <<1, 0>> >>
  /\ listHit[1].bbox = Box(1, 1, 2, 1)
====
